---- MODULE Spec2Model ----
(***************************************************************************)
(* A model of src/analisi_vendite_realistica.py: the three seeded dataset  *)
(* generators, the two left joins of build_unified_dataframe, the dtype    *)
(* optimizer, the ValoreTotale derivation, the Premium filter and main.    *)
(*                                                                         *)
(* Representation.                                                         *)
(*   cell    <<>> is a missing value (NaN, None, NaT); <<v>> holds v; the  *)
(*           ISO date text "YYYY-MM-DD" is the value <<y, m, d>>.          *)
(*   float   a float cell holds an integer number of units of 2^-15; every *)
(*           such value below 2^31 units is an exact float64, and float32  *)
(*           keeps 24 significant bits of it (round half to even).         *)
(*   table   [dtypes: column -> dtype, cats: column -> categories,         *)
(*            rows: sequence of (column -> cell)]; a pandas DataFrame.     *)
(*   heap    the DataFrame objects, by reference (position in heap).       *)
(*   file    a function defined on the names of the files that exist.      *)
(* The column "Quantità" is spelled Quantita here.                         *)
(***************************************************************************)
EXTENDS Integers, Sequences, FiniteSets, TLC

VARIABLES
  dirs,     \* the directories that exist
  files,    \* file name -> content, for the files that exist
  entropy,  \* the raw output stream of the generator seeded with 42
  rng,      \* position in entropy of the generator made last
  heap,     \* the DataFrame objects
  locals,   \* main's local variables: name -> reference into heap
  pc,       \* main's position: index into MainSteps
  trace,    \* the steps main has completed, in order
  arg,      \* harness: reference of the table passed to the last call
  ret,      \* harness: reference of the table the last call returned
  snap,     \* harness: <<content of the argument when the call began>>
  call,     \* harness: the function called last
  made,     \* harness: how the table now at arg was made
  status    \* harness: "ok", or the exception the last call raised

vars == <<dirs, files, entropy, rng, heap, locals, pc, trace,
          arg, ret, snap, call, made, status>>

----------------------------------------------------------------------------
(* Bounds of the model *)

\* main's dataset sizes (20, 5_000 and 100_000 in the source), scaled down
NProdotti == 2
NClienti == 2
NOrdini == 2
\* the period of the raw streams considered
StreamLen == 3
\* the longest orders table handed to build_unified_dataframe
MaxOrdini == 2

----------------------------------------------------------------------------
(* Cells and floating point *)

Null == <<>>
IsNull(c) == Len(c) = 0

\* units per 1.0
Scale == 2^15

Abs(i) == IF i < 0 THEN -i ELSE i

\* the spacing of float32 values around m units (24-bit significand)
RECURSIVE Ulp32(_)
Ulp32(m) == IF m < 2^24 THEN 1 ELSE 2 * Ulp32(m \div 2)

RoundHalfEven(m, g) ==
  LET lo == (m \div g) * g
      r  == m - lo
  IN  IF 2 * r < g THEN lo
      ELSE IF 2 * r > g THEN lo + g
      ELSE IF (lo \div g) % 2 = 0 THEN lo ELSE lo + g

\* astype(float32) of a float64 value
ToFloat32(m) == RoundHalfEven(m, Ulp32(m))

\* json.load of a decimal number with two fractional digits (c hundredths):
\* the nearest float64
ParseDecimal(c) ==
  (c \div 100) * Scale + (2 * (c % 100) * Scale + 100) \div 200

----------------------------------------------------------------------------
(* Dates *)

IsLeap(y) == (y % 4 = 0 /\ y % 100 # 0) \/ y % 400 = 0

MonthLen(y, m) ==
  IF m = 2 THEN (IF IsLeap(y) THEN 29 ELSE 28)
  ELSE IF m \in {4, 6, 9, 11} THEN 30 ELSE 31

YearLen(y) == IF IsLeap(y) THEN 366 ELSE 365

\* datetime(2024, 1, 1)
StartYear == 2024

\* (start_date + timedelta(days=off)).strftime("%Y-%m-%d")
RECURSIVE WalkDate(_, _, _)
WalkDate(y, m, off) ==
  IF off >= YearLen(y) /\ m = 1 THEN WalkDate(y + 1, 1, off - YearLen(y))
  ELSE IF off >= MonthLen(y, m) THEN WalkDate(y, m + 1, off - MonthLen(y, m))
  ELSE <<y, m, off + 1>>

Strftime(off) == WalkDate(StartYear, 1, off)

RECURSIVE DaysBefore(_, _)
DaysBefore(y, m) ==
  IF y > StartYear THEN YearLen(y - 1) + DaysBefore(y - 1, m)
  ELSE IF m > 1 THEN MonthLen(y, m - 1) + DaysBefore(y, m - 1)
  ELSE 0

RECURSIVE MonthDays(_, _)
MonthDays(y, m) == IF m <= 1 THEN 0 ELSE MonthLen(y, m - 1) + MonthDays(y, m - 1)

\* pd.to_datetime(text, errors="coerce") of one ISO text: the timestamp <<n>>
\* of day n counted from 2024-01-01, or NaT when the text is no calendar date
ParseDate(c) ==
  IF IsNull(c) THEN Null
  ELSE LET y == c[1][1]
           m == c[1][2]
           d == c[1][3]
       IN  IF y >= StartYear /\ m \in 1..12 /\ d \in 1..MonthLen(y, m)
           THEN << <<DaysBefore(y, 1) + MonthDays(y, m) + d - 1>> >>
           ELSE Null

----------------------------------------------------------------------------
(* Tables *)

Cols(t) == DOMAIN t.dtypes

DataFrame(dtypes, rows) ==
  [dtypes |-> dtypes, cats |-> [c \in DOMAIN dtypes |-> {}], rows |-> rows]

Column(t, c) == [i \in 1..Len(t.rows) |-> t.rows[i][c]]

SetColumn(t, c, dtype, cats, cells) ==
  [dtypes |-> (c :> dtype) @@ t.dtypes,
   cats   |-> (c :> cats) @@ t.cats,
   rows   |-> [i \in 1..Len(t.rows) |-> (c :> cells[i]) @@ t.rows[i]]]

\* pd.read_csv / pd.DataFrame(list of dicts): digits become int64, decimal
\* numbers float64, any other text object
InferDtype(kind) ==
  CASE kind = "int" -> "int64"
    [] kind = "decimal" -> "float64"
    [] OTHER -> "object"

ReadCell(kind, v) == IF kind = "decimal" THEN <<ParseDecimal(v)>> ELSE <<v>>

ReadTable(f) ==
  DataFrame([c \in DOMAIN f.kinds |-> InferDtype(f.kinds[c])],
            [i \in 1..Len(f.rows) |->
               [c \in DOMAIN f.kinds |-> ReadCell(f.kinds[c], f.rows[i][c])]])

load_prodotti(f) == ReadTable(f)

Min(S) == CHOOSE x \in S : \A y \in S : x <= y

\* the elements of s at the positions in S, in their order
RECURSIVE Pick(_, _)
Pick(s, S) == IF S = {} THEN <<>> ELSE <<s[Min(S)]>> \o Pick(s, S \ {Min(S)})

RECURSIVE Flatten(_)
Flatten(ss) == IF ss = <<>> THEN <<>> ELSE Head(ss) \o Flatten(Tail(ss))

\* Variant: how="inner", a left row that matches nothing is dropped
LeftRows_inner(left, right, key, rcols) ==
  Flatten([i \in 1..Len(left.rows) |->
    LET l == left.rows[i]
        m == SelectSeq(right.rows, LAMBDA r : r[key] = l[key])
    IN  [j \in 1..Len(m) |-> l @@ [c \in rcols |-> m[j][c]]]])

\* left.merge(right, on=key, how="left"): every left row once per matching
\* right row, in the order of left and then of right; a left row that
\* matches nothing once, with the right columns missing
LeftRows(left, right, key, rcols) ==
  Flatten([i \in 1..Len(left.rows) |->
    LET l == left.rows[i]
        m == SelectSeq(right.rows, LAMBDA r : r[key] = l[key])
    IN  IF m = <<>> THEN << l @@ [c \in rcols |-> Null] >>
        ELSE [j \in 1..Len(m) |-> l @@ [c \in rcols |-> m[j][c]]]])

\* Variant: the merge followed by .dropna(), rows with a missing value go
Merge_dropna(left, right, key) ==
  LET rcols == Cols(right) \ {key}
  IN  [dtypes |-> left.dtypes @@ [c \in rcols |-> right.dtypes[c]],
       cats   |-> left.cats @@ [c \in rcols |-> right.cats[c]],
       rows   |-> SelectSeq(LeftRows(left, right, key, rcols),
                            LAMBDA r : \A c \in rcols : ~IsNull(r[c]))]

Merge(left, right, key) ==
  LET rcols == Cols(right) \ {key}
  IN  [dtypes |-> left.dtypes @@ [c \in rcols |-> right.dtypes[c]],
       cats   |-> left.cats @@ [c \in rcols |-> right.cats[c]],
       rows   |-> LeftRows(left, right, key, rcols)]

build_unified_dataframe(fs) ==
  LET df_ordini   == ReadTable(fs["ordini.csv"])
      df_prodotti == load_prodotti(fs["prodotti.json"])
      df_clienti  == ReadTable(fs["clienti.csv"])
      df          == Merge(df_ordini, df_prodotti, "ProdottoID")
  IN  Merge(df, df_clienti, "ClienteID")

----------------------------------------------------------------------------
(* DataFrame objects *)

\* Variant: no copy, the same object under another name
DfCopy_alias(h, r) == [heap |-> h, ref |-> r]

\* df.copy(): a new object with the same content
DfCopy(h, r) == [heap |-> Append(h, h[r]), ref |-> Len(h) + 1]

Raised(h, e) == [heap |-> h, ret |-> 0, raised |-> e]
Returned(h, r) == [heap |-> h, ret |-> r, raised |-> ""]

----------------------------------------------------------------------------
(* Parte 3: optimize_dtypes *)

IntDtypes == <<"int8", "int16", "int32", "int64">>

ItemSize(d) ==
  CASE d = "int8" -> 1 [] d = "int16" -> 2 [] d = "int32" -> 4
    [] d = "float32" -> 4 [] OTHER -> 8

FitsInt(d, v) ==
  CASE d = "int8"  -> v \in -(2^7)..(2^7 - 1)
    [] d = "int16" -> v \in -(2^15)..(2^15 - 1)
    [] OTHER -> TRUE

\* Variant: the widths are tried from the widest down and the first narrower
\* one that holds every value is taken
SmallestInt_widest(k, d, cells) ==
  LET narrower == {j \in 1..Len(IntDtypes) :
                     /\ ItemSize(IntDtypes[j]) < ItemSize(d)
                     /\ \A i \in 1..Len(cells) : FitsInt(IntDtypes[j], cells[i][1])}
  IN  IF narrower = {} THEN d
      ELSE IntDtypes[CHOOSE j \in narrower : \A j2 \in narrower : j2 <= j]

\* pd.to_numeric(column, downcast="integer"): the first of int8, int16,
\* int32, int64, no wider than the column, that holds every value
RECURSIVE SmallestInt(_, _, _)
SmallestInt(k, d, cells) ==
  IF ItemSize(IntDtypes[k]) > ItemSize(d) THEN d
  ELSE IF IntDtypes[k] = d THEN d
  ELSE IF \A i \in 1..Len(cells) : FitsInt(IntDtypes[k], cells[i][1])
       THEN IntDtypes[k]
  ELSE SmallestInt(k + 1, d, cells)

DowncastInteger(t, c) ==
  LET d == t.dtypes[c]
  IN  IF d \in {"int8", "int16", "int32", "int64"}
      THEN SetColumn(t, c, SmallestInt(1, d, Column(t, c)), {}, Column(t, c))
      ELSE t

\* np.allclose(new, old, equal_nan=True, rtol=0.0, atol=5e-4)
AllClose(new, old) ==
  \A i \in 1..Len(old) :
    IF IsNull(old[i]) THEN IsNull(new[i])
    ELSE 10000 * Abs(new[i][1] - old[i][1]) <= 5 * Scale

\* pd.to_numeric(column, downcast="float"): float32 when every value
\* survives the cast within the tolerance, else the column as it is
DowncastFloat(t, c) ==
  LET old == Column(t, c)
      new == [i \in 1..Len(old) |->
                IF IsNull(old[i]) THEN Null ELSE <<ToFloat32(old[i][1])>>]
  IN  IF t.dtypes[c] = "float64" /\ AllClose(new, old)
      THEN SetColumn(t, c, "float32", {}, new)
      ELSE t

\* column.astype("category"): the categories are the values present
AsCategory(t, c) ==
  LET cells == Column(t, c)
  IN  IF t.dtypes[c] = "category" THEN t
      ELSE SetColumn(t, c, "category",
                     {cells[i][1] : i \in {j \in 1..Len(cells) : ~IsNull(cells[j])}},
                     cells)

\* pd.to_datetime(column, errors="coerce")
ToDatetime(t, c) ==
  LET cells == Column(t, c)
  IN  IF t.dtypes[c] = "datetime64" THEN t
      ELSE SetColumn(t, c, "datetime64", {},
                     [i \in 1..Len(cells) |-> ParseDate(cells[i])])

int_cols == <<"OrdineID", "ClienteID", "ProdottoID", "Quantita">>
cat_cols == <<"Categoria", "Fornitore", "Regione", "Segmento", "NomeProdotto">>

RECURSIVE DowncastIntCols(_, _)
DowncastIntCols(t, k) ==
  IF k > Len(int_cols) THEN t
  ELSE DowncastIntCols(DowncastInteger(t, int_cols[k]), k + 1)

RECURSIVE CategoryCols(_, _)
CategoryCols(t, k) ==
  IF k > Len(cat_cols) THEN t
  ELSE CategoryCols(IF cat_cols[k] \in Cols(t) THEN AsCategory(t, cat_cols[k]) ELSE t,
                    k + 1)

optimize_dtypes(h, df) ==
  LET c  == DfCopy(h, df)
      df_opt == c.ref
      t0 == c.heap[df_opt]
      t1 == DowncastIntCols(t0, 1)
      t2 == IF "Prezzo" \in Cols(t1) THEN DowncastFloat(t1, "Prezzo") ELSE t1
      t3 == CategoryCols(t2, 1)
      t4 == IF "DataOrdine" \in Cols(t3) THEN ToDatetime(t3, "DataOrdine") ELSE t3
  IN  IF \E k \in 1..Len(int_cols) : int_cols[k] \notin Cols(t0)
      THEN Raised(h, "KeyError")
      ELSE Returned([c.heap EXCEPT ![df_opt] = t4], df_opt)

----------------------------------------------------------------------------
(* Parte 4: add_valore_totale, filter_orders *)

\* the dtype of float column * integer column (numpy's promotion)
ProductDtype(dp, dq) ==
  IF dp = "float32" /\ dq \in {"int8", "int16"} THEN "float32" ELSE "float64"

\* Variant: Prezzo + Quantita
Times_plus(dtype, p, q) ==
  IF IsNull(p) \/ IsNull(q) THEN Null ELSE <<p[1] + q[1] * Scale>>

Times(dtype, p, q) ==
  IF IsNull(p) \/ IsNull(q) THEN Null
  ELSE IF dtype = "float32" THEN <<ToFloat32(p[1] * q[1])>>
  ELSE <<p[1] * q[1]>>

add_valore_totale(h, df) ==
  LET c   == DfCopy(h, df)
      df2 == c.ref
      t   == c.heap[df2]
      dt  == ProductDtype(t.dtypes["Prezzo"], t.dtypes["Quantita"])
      vt  == [i \in 1..Len(t.rows) |->
                Times(dt, t.rows[i]["Prezzo"], t.rows[i]["Quantita"])]
  IN  IF {"Prezzo", "Quantita"} \subseteq Cols(t)
      THEN Returned([c.heap EXCEPT ![df2] = SetColumn(t, "ValoreTotale", dt, {}, vt)],
                    df2)
      ELSE Raised(h, "KeyError")

\* Variant: ValoreTotale >= 100
Mask_ge(row) ==
  /\ ~IsNull(row["ValoreTotale"])
  /\ row["ValoreTotale"][1] >= 100 * Scale
  /\ ~IsNull(row["Segmento"])
  /\ row["Segmento"][1] = "Premium"

\* (df["ValoreTotale"] > 100) & (df["Segmento"] == "Premium"), for one row
Mask(row) ==
  /\ ~IsNull(row["ValoreTotale"])
  /\ row["ValoreTotale"][1] > 100 * Scale
  /\ ~IsNull(row["Segmento"])
  /\ row["Segmento"][1] = "Premium"

\* Variant: the mask is shifted by one row (mask.shift(1)): a row is kept
\* when the row before it qualifies
Loc_shifted(t) ==
  [t EXCEPT !.rows =
     Pick(t.rows, {i \in 2..Len(t.rows) :
                     /\ ~IsNull(t.rows[i - 1]["ValoreTotale"])
                     /\ t.rows[i - 1]["ValoreTotale"][1] > 100 * Scale
                     /\ t.rows[i - 1]["Segmento"] = <<"Premium">>})]

\* df.loc[mask]: a new table of the rows the mask selects, in their order
Loc(t) == [t EXCEPT !.rows = SelectSeq(t.rows, Mask)]

filter_orders(h, df) ==
  LET t == h[df]
      c == DfCopy(Append(h, Loc(t)), Len(h) + 1)
  IN  IF {"ValoreTotale", "Segmento"} \subseteq Cols(t)
      THEN Returned(c.heap, c.ref)
      ELSE Raised(h, "KeyError")

----------------------------------------------------------------------------
(* Input files for the calls made outside main *)

FileNames == {"prodotti.json", "clienti.csv", "ordini.csv"}

OrdiniKinds ==
  [OrdineID |-> "int", ClienteID |-> "int", ProdottoID |-> "int",
   Quantita |-> "int", DataOrdine |-> "text"]
ProdottiKinds ==
  [ProdottoID |-> "int", NomeProdotto |-> "text", Categoria |-> "text",
   Fornitore |-> "text", Prezzo |-> "decimal"]
ClientiKinds ==
  [ClienteID |-> "int", Regione |-> "text", Segmento |-> "text"]

\* f"Prodotto_{pid:02d}"
NomeProdotto(pid) == <<"Prodotto_", pid>>

\* Orders to draw from: customer 3 and product 3 are in no sample table,
\* "2024-13-45" is no date, 10 * 10.00 is exactly 100
OrdiniSamples ==
  << [ClienteID |-> 1, ProdottoID |-> 1, Quantita |-> 20, DataOrdine |-> <<2024, 1, 1>>],
     [ClienteID |-> 1, ProdottoID |-> 1, Quantita |-> 10, DataOrdine |-> <<2024, 12, 30>>],
     [ClienteID |-> 2, ProdottoID |-> 2, Quantita |-> 7, DataOrdine |-> <<2024, 2, 29>>],
     [ClienteID |-> 3, ProdottoID |-> 2, Quantita |-> 3, DataOrdine |-> <<2024, 13, 45>>],
     [ClienteID |-> 2, ProdottoID |-> 3, Quantita |-> 200, DataOrdine |-> <<2024, 3, 15>>] >>

\* Products to draw from (Prezzo in hundredths): 600.03 changes when cast to
\* float32 and 7 * 600.03 is no float32, 16384.03 changes by more than the
\* tolerance of the downcast; the last two share ProdottoID 2
ProdottiSamples ==
  << [ProdottoID |-> 1, NomeProdotto |-> NomeProdotto(1), Categoria |-> "A",
      Fornitore |-> "SupplierOne", Prezzo |-> 1000],
     [ProdottoID |-> 2, NomeProdotto |-> NomeProdotto(2), Categoria |-> "B",
      Fornitore |-> "SupplierTwo", Prezzo |-> 60003],
     [ProdottoID |-> 2, NomeProdotto |-> NomeProdotto(2), Categoria |-> "C",
      Fornitore |-> "SupplierOne", Prezzo |-> 1638403] >>

\* Customers to draw from; the last two share ClienteID 2
ClientiSamples ==
  << [ClienteID |-> 1, Regione |-> "Nord", Segmento |-> "Premium"],
     [ClienteID |-> 2, Regione |-> "Sud", Segmento |-> "Standard"],
     [ClienteID |-> 2, Regione |-> "Isole", Segmento |-> "premium"] >>

\* the non-empty tables made of sample rows, in the samples' order
SubTables(s) == {Pick(s, S) : S \in (SUBSET (1..Len(s))) \ {{}}}

\* the orders tables of 1..MaxOrdini sample rows, OrdineID counting from 1
OrdiniTables ==
  UNION {{[i \in 1..n |-> [OrdineID |-> i] @@ OrdiniSamples[f[i]]] :
            f \in [1..n -> 1..Len(OrdiniSamples)]} : n \in 1..MaxOrdini}

\* every product of a price and a quantity stays within 32-bit integers
FitsModel(ordini, prodotti) ==
  \A i \in 1..Len(ordini), j \in 1..Len(prodotti) :
    ParseDecimal(prodotti[j].Prezzo) <= (2^30 + (2^30 - 2^8)) \div ordini[i].Quantita

UniqueKey(rows, key) ==
  \A i, j \in 1..Len(rows) : rows[i][key] = rows[j][key] => i = j

----------------------------------------------------------------------------
(* The calls made outside main: build_unified_dataframe on given files,     *)
(* then optimize_dtypes, add_valore_totale and filter_orders in any order,  *)
(* each on the table the caller holds; the caller may also change the       *)
(* table a call returned, which ends the run.                               *)

NoMain ==
  /\ dirs = {"raw", "processed"}
  /\ entropy = <<>>
  /\ rng = 0
  /\ locals = <<>>
  /\ pc = 0
  /\ trace = <<>>

InitFn ==
  /\ NoMain
  /\ \E o \in OrdiniTables, p \in SubTables(ProdottiSamples),
        c \in SubTables(ClientiSamples) :
       /\ FitsModel(o, p)
       /\ files = [n \in FileNames |->
                     CASE n = "ordini.csv" -> [kinds |-> OrdiniKinds, rows |-> o]
                       [] n = "prodotti.json" -> [kinds |-> ProdottiKinds, rows |-> p]
                       [] OTHER -> [kinds |-> ClientiKinds, rows |-> c]]
  /\ heap = <<>>
  /\ arg = 0
  /\ ret = 0
  /\ snap = <<>>
  /\ call = "none"
  /\ made = "none"
  /\ status = "ok"

MainUnchanged == UNCHANGED <<dirs, files, entropy, rng, locals, pc, trace>>

FnUnify ==
  /\ call = "none"
  /\ heap' = <<build_unified_dataframe(files)>>
  /\ ret' = 1
  /\ call' = "build_unified_dataframe"
  /\ UNCHANGED <<arg, snap, made, status>>
  /\ MainUnchanged

\* the table the caller holds: what the last call returned, or, when it
\* raised, what was passed to it
Held == IF ret # 0 THEN ret ELSE arg
HeldMade == IF ret # 0 THEN call ELSE made

\* a call of function f on the table held; objects no longer referenced go
Called(name, r) ==
  /\ call # "mutate"
  /\ heap' = r.heap
  /\ arg' = 1
  /\ ret' = r.ret
  /\ snap' = <<heap[Held]>>
  /\ call' = name
  /\ made' = HeldMade
  /\ status' = IF r.raised = "" THEN "ok" ELSE r.raised
  /\ MainUnchanged

FnOptimize ==
  /\ Held # 0
  /\ Called("optimize_dtypes", optimize_dtypes(<<heap[Held]>>, 1))

FnAddValore ==
  /\ Held # 0
  /\ Called("add_valore_totale", add_valore_totale(<<heap[Held]>>, 1))

FnFilter ==
  /\ Held # 0
  /\ Called("filter_orders", filter_orders(<<heap[Held]>>, 1))

\* the caller changes the returned table in place: ret["Quantita"] = 1
FnMutate ==
  /\ ret # 0
  /\ arg # 0
  /\ call # "mutate"
  /\ heap' = [heap EXCEPT ![ret] =
                SetColumn(@, "Quantita", "int64", {}, [i \in 1..Len(@.rows) |-> <<1>>])]
  /\ call' = "mutate"
  /\ UNCHANGED <<arg, ret, snap, made, status>>
  /\ MainUnchanged

NextFn == FnUnify \/ FnOptimize \/ FnAddValore \/ FnFilter \/ FnMutate

SpecFn == InitFn /\ [][NextFn]_vars

----------------------------------------------------------------------------
(* Parte 1: the seeded generators                                           *)
(*                                                                          *)
(* entropy is the raw output of the bit generator seeded with RANDOM_SEED,  *)
(* one uniform draw per position, in tenths; only streams of period         *)
(* StreamLen are considered. A Generator object is its position in entropy. *)

RANDOM_SEED == 42

\* the raw draws considered: 0.0, 0.3, 0.7 and 0.9
Raw == {0, 3, 7, 9}

Streams == [1..StreamLen -> Raw]

\* Variant: one module-level generator, carried on from call to call
default_rng_shared(seed) == rng

\* np.random.default_rng(seed): a new generator, at the start of the stream
default_rng(seed) == 0

Draw(pos) == entropy[(pos % StreamLen) + 1]

\* Variant: the upper end is included
Integers_inclusive(d, low, high) == low + (d * (high - low + 1)) \div 10

\* rng.integers(low, high): low <= result < high
Integers(d, low, high) == low + (d * (high - low)) \div 10

\* rng.choice(list)
Choice(list, d) == list[1 + (d * Len(list)) \div 10]

\* rng.choice(list, p=...): cdf holds the cumulative weights, in tenths
RECURSIVE ChoiceP(_, _, _)
ChoiceP(list, cdf, d) ==
  IF d < Head(cdf) \/ Len(list) = 1 THEN Head(list)
  ELSE ChoiceP(Tail(list), Tail(cdf), d)

\* round(float(rng.uniform(low, high)), 2), in hundredths
Uniform2(d, low, high) == 100 * low + (100 * (high - low) * d) \div 10

categorie == <<"A", "B", "C", "D">>
fornitori == <<"SupplierOne", "SupplierTwo", "SupplierThree", "SupplierFour">>
regioni == <<"Nord", "Centro", "Sud", "Isole">>
segmenti == <<"Standard", "Premium", "Business">>

\* the products written by a generator that starts at position pos
ProdottiRows(pos, n_prodotti) ==
  [pid \in 1..n_prodotti |->
     [ProdottoID   |-> pid,
      NomeProdotto |-> NomeProdotto(pid),
      Categoria    |-> Choice(categorie, Draw(pos + 3 * (pid - 1))),
      Fornitore    |-> Choice(fornitori, Draw(pos + 3 * (pid - 1) + 1)),
      Prezzo       |-> Uniform2(Draw(pos + 3 * (pid - 1) + 2), 5, 300)]]

ClientiRows(pos, n_clienti) ==
  [i \in 1..n_clienti |->
     [ClienteID |-> i,
      Regione   |-> Choice(regioni, Draw(pos + i - 1)),
      Segmento  |-> ChoiceP(segmenti, <<7, 9, 10>>, Draw(pos + n_clienti + i - 1))]]

OrdiniRows(pos, n_ordini, n_clienti, n_prodotti) ==
  [i \in 1..n_ordini |->
     [OrdineID   |-> i,
      ClienteID  |-> Integers(Draw(pos + i - 1), 1, n_clienti + 1),
      ProdottoID |-> Integers(Draw(pos + n_ordini + i - 1), 1, n_prodotti + 1),
      Quantita   |-> Integers(Draw(pos + 2 * n_ordini + i - 1), 1, 11),
      DataOrdine |-> Strftime(Integers(Draw(pos + 3 * n_ordini + i - 1), 0, 365))]]

\* Each generator: [rng: the generator's position when it returns,
\*                  name, content: the file it writes]
create_prodotti_json(n_prodotti) ==
  LET r == default_rng(RANDOM_SEED)
  IN  [rng |-> r + 3 * n_prodotti, name |-> "prodotti.json",
       content |-> [kinds |-> ProdottiKinds, rows |-> ProdottiRows(r, n_prodotti)]]

create_clienti_csv(n_clienti) ==
  LET r == default_rng(RANDOM_SEED)
  IN  [rng |-> r + 2 * n_clienti, name |-> "clienti.csv",
       content |-> [kinds |-> ClientiKinds, rows |-> ClientiRows(r, n_clienti)]]

create_ordini_csv(n_ordini, n_clienti, n_prodotti) ==
  LET r == default_rng(RANDOM_SEED)
  IN  [rng |-> r + 4 * n_ordini, name |-> "ordini.csv",
       content |-> [kinds |-> OrdiniKinds,
                    rows |-> OrdiniRows(r, n_ordini, n_clienti, n_prodotti)]]

\* A file is written only into a directory that exists
Write(dir, name, content) ==
  IF dir \in dirs
  THEN files' = (name :> content) @@ files /\ status' = "ok"
  ELSE files' = files /\ status' = "FileNotFoundError"

Generate(g) ==
  /\ rng' = g.rng
  /\ Write("raw", g.name, g.content)

ensure_dirs == dirs' = dirs \cup {"raw", "processed"}

NoHarness ==
  /\ arg = 0
  /\ ret = 0
  /\ snap = <<>>
  /\ call = "none"
  /\ made = "none"
  /\ status = "ok"

HarnessUnchanged == UNCHANGED <<arg, ret, snap, call, made>>

----------------------------------------------------------------------------
(* The generators called in any order, any number of times *)

InitGen ==
  /\ NoHarness
  /\ dirs = {}
  /\ files = <<>>
  /\ entropy \in Streams
  /\ rng = 0
  /\ heap = <<>>
  /\ locals = <<>>
  /\ pc = 0
  /\ trace = <<>>

GenFrame == UNCHANGED <<entropy, heap, locals, pc, trace>> /\ HarnessUnchanged

GenEnsureDirs ==
  /\ ensure_dirs
  /\ UNCHANGED <<files, rng, status>>
  /\ GenFrame

GenProdotti ==
  /\ Generate(create_prodotti_json(NProdotti))
  /\ UNCHANGED dirs
  /\ GenFrame

GenClienti ==
  /\ Generate(create_clienti_csv(NClienti))
  /\ UNCHANGED dirs
  /\ GenFrame

GenOrdini ==
  /\ Generate(create_ordini_csv(NOrdini, NClienti, NProdotti))
  /\ UNCHANGED dirs
  /\ GenFrame

NextGen == GenEnsureDirs \/ GenProdotti \/ GenClienti \/ GenOrdini

SpecGen == InitGen /\ [][NextGen]_vars

----------------------------------------------------------------------------
(* main *)

\* Variant: the unified table is persisted after ValoreTotale is derived
MainSteps_late_persist ==
  << "ensure_dirs", "create_prodotti_json", "create_clienti_csv",
     "create_ordini_csv", "build_unified_dataframe", "memory_before",
     "optimize_dtypes", "memory_after", "add_valore_totale",
     "to_parquet_unified", "filter_orders", "to_parquet_filtered", "summary" >>

MainSteps ==
  << "ensure_dirs", "create_prodotti_json", "create_clienti_csv",
     "create_ordini_csv", "build_unified_dataframe", "memory_before",
     "optimize_dtypes", "memory_after", "to_parquet_unified",
     "add_valore_totale", "filter_orders", "to_parquet_filtered", "summary" >>

Init ==
  /\ NoHarness
  /\ dirs \in SUBSET {"raw", "processed"}
  /\ files = <<>>
  /\ entropy \in Streams
  /\ rng = 0
  /\ heap = <<>>
  /\ locals = <<>>
  /\ pc = 1
  /\ trace = <<>>

\* main is at step `name`
At(name) == pc \in 1..Len(MainSteps) /\ MainSteps[pc] = name

\* the step completes, or an exception ends main
Done(name) ==
  /\ trace' = Append(trace, name)
  /\ pc' = IF status' = "ok" THEN pc + 1 ELSE 0
  /\ UNCHANGED entropy
  /\ HarnessUnchanged

\* a call that returns a table, assigned to main's local `name`
Assign(name, r) ==
  /\ heap' = r.heap
  /\ locals' = IF r.raised = "" THEN (name :> r.ret) @@ locals ELSE locals
  /\ status' = IF r.raised = "" THEN "ok" ELSE r.raised
  /\ UNCHANGED <<dirs, files, rng>>

MainEnsureDirs ==
  /\ At("ensure_dirs")
  /\ ensure_dirs
  /\ UNCHANGED <<files, rng, heap, locals, status>>
  /\ Done("ensure_dirs")

MainProdotti ==
  /\ At("create_prodotti_json")
  /\ Generate(create_prodotti_json(NProdotti))
  /\ UNCHANGED <<dirs, heap, locals>>
  /\ Done("create_prodotti_json")

MainClienti ==
  /\ At("create_clienti_csv")
  /\ Generate(create_clienti_csv(NClienti))
  /\ UNCHANGED <<dirs, heap, locals>>
  /\ Done("create_clienti_csv")

MainOrdini ==
  /\ At("create_ordini_csv")
  /\ Generate(create_ordini_csv(NOrdini, NClienti, NProdotti))
  /\ UNCHANGED <<dirs, heap, locals>>
  /\ Done("create_ordini_csv")

MainUnify ==
  /\ At("build_unified_dataframe")
  /\ Assign("df", IF FileNames \subseteq DOMAIN files
                   THEN Returned(Append(heap, build_unified_dataframe(files)),
                                 Len(heap) + 1)
                   ELSE Raised(heap, "FileNotFoundError"))
  /\ Done("build_unified_dataframe")

\* print(df.head()); print(memory_mb(df)): output only
MainMemoryBefore ==
  /\ At("memory_before")
  /\ "df" \in DOMAIN locals
  /\ UNCHANGED <<dirs, files, rng, heap, locals, status>>
  /\ Done("memory_before")

MainOptimize ==
  /\ At("optimize_dtypes")
  /\ Assign("df_opt", optimize_dtypes(heap, locals["df"]))
  /\ Done("optimize_dtypes")

MainMemoryAfter ==
  /\ At("memory_after")
  /\ "df_opt" \in DOMAIN locals
  /\ UNCHANGED <<dirs, files, rng, heap, locals, status>>
  /\ Done("memory_after")

MainPersistUnified ==
  /\ At("to_parquet_unified")
  /\ Write("processed", "unified_optimized.parquet", heap[locals["df_opt"]])
  /\ UNCHANGED <<dirs, rng, heap, locals>>
  /\ Done("to_parquet_unified")

MainAddValore ==
  /\ At("add_valore_totale")
  /\ Assign("df_calc", add_valore_totale(heap, locals["df_opt"]))
  /\ Done("add_valore_totale")

MainFilter ==
  /\ At("filter_orders")
  /\ Assign("df_filtered", filter_orders(heap, locals["df_calc"]))
  /\ Done("filter_orders")

MainPersistFiltered ==
  /\ At("to_parquet_filtered")
  /\ Write("processed", "filtered_orders.parquet", heap[locals["df_filtered"]])
  /\ UNCHANGED <<dirs, rng, heap, locals>>
  /\ Done("to_parquet_filtered")

\* print(len(df_calc)); print(len(df_filtered)): output only
MainSummary ==
  /\ At("summary")
  /\ {"df_calc", "df_filtered"} \subseteq DOMAIN locals
  /\ UNCHANGED <<dirs, files, rng, heap, locals, status>>
  /\ Done("summary")

Next ==
  \/ MainEnsureDirs \/ MainProdotti \/ MainClienti \/ MainOrdini
  \/ MainUnify \/ MainMemoryBefore \/ MainOptimize \/ MainMemoryAfter
  \/ MainPersistUnified \/ MainAddValore \/ MainFilter
  \/ MainPersistFiltered \/ MainSummary

Spec == Init /\ [][Next]_vars

----------------------------------------------------------------------------
(* Properties. Those about build_unified_dataframe, optimize_dtypes,        *)
(* add_valore_totale and filter_orders are stated of SpecFn, those about    *)
(* the generators of SpecGen, those about main of Spec.                     *)

Ordini == files["ordini.csv"].rows
Prodotti == files["prodotti.json"].rows
Clienti == files["clienti.csv"].rows

OrdiniCols == {"OrdineID", "ClienteID", "ProdottoID", "Quantita", "DataOrdine"}
ProdottiCols == {"NomeProdotto", "Categoria", "Fornitore", "Prezzo"}
ClientiCols == {"Regione", "Segmento"}

\* the output rows that come from the order with this OrdineID
RowsOf(t, oid) == {j \in 1..Len(t.rows) : t.rows[j]["OrdineID"] = <<oid>>}

HasKey(rows, key, v) == \E j \in 1..Len(rows) : rows[j][key] = v

UniqueKeys ==
  UniqueKey(Prodotti, "ProdottoID") /\ UniqueKey(Clienti, "ClienteID")

\* C1: with ProdottoID unique among the products and ClienteID unique among
\* the customers, build_unified_dataframe returns as many rows as there are
\* orders, and each order appears exactly once.
C1_RowCount ==
  (call = "build_unified_dataframe" /\ UniqueKeys) =>
    /\ Len(heap[ret].rows) = Len(Ordini)
    /\ \A i \in 1..Len(Ordini) :
         Cardinality(RowsOf(heap[ret], Ordini[i].OrdineID)) = 1

\* two or more orders, one matched in both tables and one not
C1_Witness ==
  /\ call = "build_unified_dataframe"
  /\ UniqueKeys
  /\ Len(Ordini) >= 2
  /\ \E j \in 1..Len(heap[ret].rows) :
       ~IsNull(heap[ret].rows[j]["Prezzo"]) /\ ~IsNull(heap[ret].rows[j]["Segmento"])
  /\ \E j \in 1..Len(heap[ret].rows) : IsNull(heap[ret].rows[j]["Segmento"])

\* the rows filter_orders must keep: ValoreTotale > 100 and Segmento "Premium"
Qualifying(t) ==
  {i \in 1..Len(t.rows) :
     /\ t.rows[i]["ValoreTotale"] # Null
     /\ t.rows[i]["ValoreTotale"][1] > 100 * Scale
     /\ t.rows[i]["Segmento"] = <<"Premium">>}

\* C2: on a table with ValoreTotale and Segmento, filter_orders raises
\* nothing and returns exactly the rows with ValoreTotale > 100 (strictly)
\* and Segmento = "Premium", in the order of the input, with the input's
\* columns; no such row gives an empty table.
C2_FilterExact ==
  (call = "filter_orders" /\ {"ValoreTotale", "Segmento"} \subseteq Cols(snap[1])) =>
    /\ status = "ok"
    /\ ret # 0
    /\ heap[ret].rows = Pick(snap[1].rows, Qualifying(snap[1]))
    /\ heap[ret].dtypes = snap[1].dtypes

\* a Premium row above 100 is kept and a Premium row of exactly 100 is not
C2_Witness ==
  /\ call = "filter_orders"
  /\ status = "ok"
  /\ Len(heap[ret].rows) >= 1
  /\ \E i \in 1..Len(snap[1].rows) :
       /\ snap[1].rows[i]["ValoreTotale"] = <<100 * Scale>>
       /\ snap[1].rows[i]["Segmento"] = <<"Premium">>

\* v is the floating-point product of p and q in the column type dtype:
\* the exact product in float64, the float32 nearest to it in float32
IsProduct(dtype, v, p, q) ==
  IF IsNull(p) \/ IsNull(q) THEN IsNull(v)
  ELSE /\ ~IsNull(v)
       /\ IF dtype = "float64" THEN v[1] = p[1] * q[1]
          ELSE /\ dtype = "float32"
               /\ v[1] % Ulp32(v[1]) = 0
               /\ 2 * Abs(v[1] - p[1] * q[1]) <= Ulp32(p[1] * q[1])

\* C3: add_valore_totale returns the rows of its input in their order, each
\* with ValoreTotale = Prezzo * Quantita of that row (the floating-point
\* product in the type of the column) and every other column unchanged.
C3_ValoreTotale ==
  (call = "add_valore_totale" /\ status = "ok") =>
    LET in   == snap[1]
        out  == heap[ret]
        kept == Cols(in) \ {"ValoreTotale"}
    IN  /\ Len(out.rows) = Len(in.rows)
        /\ Cols(out) = Cols(in) \cup {"ValoreTotale"}
        /\ \A c \in kept : out.dtypes[c] = in.dtypes[c] /\ out.cats[c] = in.cats[c]
        /\ \A i \in 1..Len(in.rows) :
             /\ \A c \in kept : out.rows[i][c] = in.rows[i][c]
             /\ IsProduct(out.dtypes["ValoreTotale"], out.rows[i]["ValoreTotale"],
                          in.rows[i]["Prezzo"], in.rows[i]["Quantita"])

\* two or more rows, one of them with a float32 product that was rounded
C3_Witness ==
  /\ call = "add_valore_totale"
  /\ status = "ok"
  /\ Len(heap[ret].rows) >= 2
  /\ heap[ret].dtypes["ValoreTotale"] = "float32"
  /\ \E i \in 1..Len(heap[ret].rows) :
       /\ ~IsNull(heap[ret].rows[i]["ValoreTotale"])
       /\ heap[ret].rows[i]["ValoreTotale"][1] #
            snap[1].rows[i]["Prezzo"][1] * snap[1].rows[i]["Quantita"][1]

\* C5: optimize_dtypes applied to a table optimize_dtypes returned gives a
\* table with the same values, dtypes and categories.
C5_OptimizeIdempotent ==
  (call = "optimize_dtypes" /\ made = "optimize_dtypes" /\ status = "ok") =>
    heap[ret] = snap[1]

\* a second optimize_dtypes of a table with float32 prices and a NaT date
C5_Witness ==
  /\ call = "optimize_dtypes"
  /\ made = "optimize_dtypes"
  /\ status = "ok"
  /\ Len(heap[ret].rows) >= 2
  /\ heap[ret].dtypes["Prezzo"] = "float32"
  /\ heap[ret].dtypes["Quantita"] = "int8"
  /\ \E i \in 1..Len(heap[ret].rows) : IsNull(heap[ret].rows[i]["DataOrdine"])

\* C6: filter_orders applied to a table filter_orders returned gives the
\* same rows in the same order.
C6_FilterIdempotent ==
  (call = "filter_orders" /\ made = "filter_orders" /\ status = "ok") =>
    heap[ret] = snap[1]

\* a second filter_orders of a table that kept a row
C6_Witness ==
  /\ call = "filter_orders"
  /\ made = "filter_orders"
  /\ status = "ok"
  /\ Len(heap[ret].rows) >= 1

\* C9: the table passed to optimize_dtypes, add_valore_totale or
\* filter_orders is as it was when the call began, the returned table is
\* another object, and a later change of the returned table leaves the
\* argument as it was.
C9_InputUnchanged ==
  arg # 0 => /\ heap[arg] = snap[1]
             /\ ret # 0 => ret # arg

\* the table add_valore_totale returned was changed; its argument was not
C9_Witness ==
  /\ call = "mutate"
  /\ arg # 0
  /\ "ValoreTotale" \in Cols(heap[ret])
  /\ "ValoreTotale" \notin Cols(heap[arg])
  /\ Len(heap[arg].rows) >= 1
  /\ heap[arg].rows[1]["Quantita"] # <<1>>
  /\ heap[ret].rows[1]["Quantita"] = <<1>>

\* the order columns of output row j are those of order i of the file
SameOrder(t, j, i) ==
  \A c \in OrdiniCols : t.rows[j][c] = <<Ordini[i][c]>>

Dangling(i) ==
  \/ ~HasKey(Prodotti, "ProdottoID", Ordini[i].ProdottoID)
  \/ ~HasKey(Clienti, "ClienteID", Ordini[i].ClienteID)

\* every output row of order i: the order's own columns unchanged, and the
\* columns of a table that lacks the order's key missing
NullsWhereAbsent(t, i) ==
  \A j \in RowsOf(t, Ordini[i].OrdineID) :
    /\ SameOrder(t, j, i)
    /\ ~HasKey(Prodotti, "ProdottoID", Ordini[i].ProdottoID) =>
         \A c \in ProdottiCols : IsNull(t.rows[j][c])
    /\ ~HasKey(Clienti, "ClienteID", Ordini[i].ClienteID) =>
         \A c \in ClientiCols : IsNull(t.rows[j][c])

\* C10 as stated: an order whose ProdottoID is in no product, or whose
\* ClienteID is in no customer, appears exactly once in the output, with the
\* unmatched table's columns missing and its own columns unchanged.
C10_AsStated ==
  call = "build_unified_dataframe" =>
    \A i \in 1..Len(Ordini) :
      Dangling(i) => /\ Cardinality(RowsOf(heap[ret], Ordini[i].OrdineID)) = 1
                     /\ NullsWhereAbsent(heap[ret], i)

\* C10 as amended: such an order is never dropped, each of its output rows
\* has the unmatched table's columns missing and its own columns unchanged,
\* and it appears exactly once when ProdottoID is unique among the products
\* and ClienteID among the customers.
C10_DanglingKept ==
  call = "build_unified_dataframe" =>
    \A i \in 1..Len(Ordini) :
      Dangling(i) => /\ RowsOf(heap[ret], Ordini[i].OrdineID) # {}
                     /\ NullsWhereAbsent(heap[ret], i)
                     /\ UniqueKeys =>
                          Cardinality(RowsOf(heap[ret], Ordini[i].OrdineID)) = 1

\* an order without product and an order without customer, both kept
C10_Witness ==
  /\ call = "build_unified_dataframe"
  /\ UniqueKeys
  /\ \E i \in 1..Len(Ordini) :
       /\ ~HasKey(Prodotti, "ProdottoID", Ordini[i].ProdottoID)
       /\ HasKey(Clienti, "ClienteID", Ordini[i].ClienteID)
       /\ RowsOf(heap[ret], Ordini[i].OrdineID) # {}
  /\ \E i \in 1..Len(Ordini) :
       /\ ~HasKey(Clienti, "ClienteID", Ordini[i].ClienteID)
       /\ HasKey(Prodotti, "ProdottoID", Ordini[i].ProdottoID)
       /\ RowsOf(heap[ret], Ordini[i].OrdineID) # {}

\* the day offset of a written date from the start date
OffsetOf(date) == ParseDate(<<date>>)

\* C4: the orders create_ordini_csv writes have OrdineID 1..n_ordini in
\* sequence, ClienteID in 1..n_clienti, ProdottoID in 1..n_prodotti,
\* Quantita in 1..10 and a date 0..364 days after the start date; in main
\* every order has its customer and its product, and the unified table has
\* no missing product or customer column.
C4_OrdersInRange ==
  /\ "ordini.csv" \in DOMAIN files =>
       /\ Len(Ordini) = NOrdini
       /\ \A i \in 1..Len(Ordini) :
            /\ Ordini[i].OrdineID = i
            /\ Ordini[i].ClienteID \in 1..NClienti
            /\ Ordini[i].ProdottoID \in 1..NProdotti
            /\ Ordini[i].Quantita \in 1..10
            /\ ~IsNull(OffsetOf(Ordini[i].DataOrdine))
            /\ OffsetOf(Ordini[i].DataOrdine)[1][1] \in 0..364
            /\ HasKey(Prodotti, "ProdottoID", Ordini[i].ProdottoID)
            /\ HasKey(Clienti, "ClienteID", Ordini[i].ClienteID)
  /\ "df" \in DOMAIN locals =>
       /\ Len(heap[locals["df"]].rows) = NOrdini
       /\ \A j \in 1..Len(heap[locals["df"]].rows) :
            \A c \in ProdottiCols \cup ClientiCols :
              ~IsNull(heap[locals["df"]].rows[j][c])

\* the unified table was built from orders that reach the last customer,
\* the last product and the largest quantity
C4_Witness ==
  /\ "df" \in DOMAIN locals
  /\ \E i \in 1..Len(Ordini) : Ordini[i].ClienteID = NClienti
  /\ \E i \in 1..Len(Ordini) : Ordini[i].ProdottoID = NProdotti
  /\ \E i \in 1..Len(Ordini) : Ordini[i].Quantita = 10
  /\ \E i \in 1..Len(Ordini) : Ordini[i].ClienteID = 1

\* C7: whatever was called before, and however often, a file a generator
\* wrote holds what a generator at the start of the stream of the seed
\* writes for the same arguments.
C7_Deterministic ==
  /\ "prodotti.json" \in DOMAIN files => Prodotti = ProdottiRows(0, NProdotti)
  /\ "clienti.csv" \in DOMAIN files => Clienti = ClientiRows(0, NClienti)
  /\ "ordini.csv" \in DOMAIN files =>
       Ordini = OrdiniRows(0, NOrdini, NClienti, NProdotti)

\* the three files written, the orders last, after a generator that left
\* off elsewhere in a stream whose draws differ
C7_Witness ==
  /\ FileNames \subseteq DOMAIN files
  /\ rng = 4 * NOrdini
  /\ \E i, j \in 1..StreamLen : entropy[i] # entropy[j]
  /\ \E i \in 1..Len(Ordini) : Ordini[i].ClienteID # Ordini[1].ClienteID

\* the order of the steps of main
SpecOrder ==
  << "ensure_dirs", "create_prodotti_json", "create_clienti_csv",
     "create_ordini_csv", "build_unified_dataframe", "memory_before",
     "optimize_dtypes", "memory_after", "to_parquet_unified",
     "add_valore_totale", "filter_orders", "to_parquet_filtered", "summary" >>

Unified == files["unified_optimized.parquet"]
Filtered == files["filtered_orders.parquet"]

\* C8: the steps main has run are the first steps of the fixed order, each
\* once and none failed; the unified table is written before ValoreTotale
\* is derived and has no such column; the filtered table is written after
\* derivation and filtering and is the table filter_orders returned.
C8_FixedOrder ==
  /\ pc = Len(trace) + 1
  /\ Len(trace) <= Len(SpecOrder)
  /\ trace = SubSeq(SpecOrder, 1, Len(trace))
  /\ "unified_optimized.parquet" \in DOMAIN files =>
       /\ "ValoreTotale" \notin Cols(Unified)
       /\ Unified = heap[locals["df_opt"]]
  /\ "df_calc" \in DOMAIN locals =>
       /\ "unified_optimized.parquet" \in DOMAIN files
       /\ "ValoreTotale" \in Cols(heap[locals["df_calc"]])
  /\ "filtered_orders.parquet" \in DOMAIN files =>
       /\ {"df_calc", "df_filtered"} \subseteq DOMAIN locals
       /\ "ValoreTotale" \in Cols(Filtered)
       /\ Filtered = heap[locals["df_filtered"]]

\* main ran to its end and the filtered table it wrote has a row
C8_Witness ==
  /\ pc = Len(SpecOrder) + 1
  /\ trace = SpecOrder
  /\ "filtered_orders.parquet" \in DOMAIN files
  /\ Len(Filtered.rows) >= 1
  /\ Len(Filtered.rows) < Len(heap[locals["df_calc"]].rows)

====
